---------------------------- MODULE Spec2Model ----------------------------
(***************************************************************************)
(* The request scheduler of src/services/geminiService.ts: the priority    *)
(* queue PromiseQueue (a concurrency gate over a two-class pending list)   *)
(* and the retry policy retryOperation (classification of a failure,       *)
(* backoff wait, bounded number of attempts).                              *)
(*                                                                         *)
(* JavaScript runs every callback to completion, so each action below is   *)
(* one callback: a call of add(), the continuation of retryOperation after *)
(* the awaited operation settles, the timer of wait(), the continuation of *)
(* wrappedTask, and the finally() callback registered by run().            *)
(***************************************************************************)
EXTENDS Integers, Sequences, FiniteSets, TLC

\* ------------------------------------------------------------- bounds
MaxTasks == 4          \* number of add() calls explored, at most
MaxConcurrency == 2    \* the queue is built with limit 1 or MaxConcurrency
MaxRetries == 2        \* explicit retry budgets explored: 0..MaxRetries
MaxFailures == 1       \* failures of the external call explored in one run

\* -------------------------------------------------- program constants
DefaultRetries == 2    \* retryOperation(operation, retries = 2, ...)
DefaultDelay == 2000   \* retryOperation(..., delay = 2000)
CallerDelay == 3000    \* the delay extractQuestionsFromImage passes
RateLimitBase == 5000  \* 5000 + Math.random() * 3000
RateLimitSpan == 3000

Tasks == 1..MaxTasks
NoArg == 0 - 1         \* an argument the caller leaves out (undefined)

\* ------------------------------------------------------------- errors
\* A thrown error: error.code, error.status (a number, or the string kept in
\* statusText) and error.message, a string kept as its sequence of words.
NoError == [code |-> 0, status |-> 0, statusText |-> "", message |-> <<>>]

Err(c, s, st, m) == [code |-> c, status |-> s, statusText |-> st, message |-> m]

\* String.prototype.toLowerCase on the words used here.
toLowerCase(w) ==
    CASE w = "QUOTA" -> "quota"
      [] w = "Quota" -> "quota"
      [] w = "EXHAUSTED" -> "exhausted"
      [] w = "Exhausted" -> "exhausted"
      [] w = "NETWORK" -> "network"
      [] w = "Network" -> "network"
      [] w = "FETCH" -> "fetch"
      [] w = "Fetch" -> "fetch"
      [] w = "XHR" -> "xhr"
      [] w = "Failed" -> "failed"
      [] w = "Error" -> "error"
      [] w = "Code:" -> "code:"
      [] OTHER -> w

lower(m) == [i \in 1..Len(m) |-> toLowerCase(m[i])]

\* String.prototype.includes: needle occurs in m as a run of consecutive words.
includes(m, needle) ==
    \E i \in 0..(Len(m) - Len(needle)) :
        \A j \in 1..Len(needle) : m[i + j] = needle[j]

\* "error.message && ..." : an absent or empty message is falsy.
hasMessage(e) == Len(e.message) > 0

\* Mutant of isRateLimitError: the message is searched as it is, without
\* toLowerCase.
isRateLimitError_caseSensitive(e) ==
    \/ e.code = 429
    \/ e.status = 429
    \/ e.statusText = "RESOURCE_EXHAUSTED"
    \/ /\ hasMessage(e)
       /\ \/ includes(e.message, <<"429">>)
          \/ includes(e.message, <<"quota">>)
          \/ includes(e.message, <<"exhausted">>)

\* Lines 80-87.
isRateLimitError(e) ==
    \/ e.code = 429
    \/ e.status = 429
    \/ e.statusText = "RESOURCE_EXHAUSTED"
    \/ /\ hasMessage(e)
       /\ \/ includes(e.message, <<"429">>)
          \/ includes(lower(e.message), <<"quota">>)
          \/ includes(lower(e.message), <<"exhausted">>)

isNetworkError(e) ==
    /\ hasMessage(e)
    /\ \/ includes(e.message, <<"xhr">>)
       \/ includes(e.message, <<"fetch">>)
       \/ includes(e.message, <<"network">>)
       \/ includes(e.message, <<"Failed", "to", "fetch">>)

isServerError(e) ==
    \/ e.code = 500
    \/ e.code = 503
    \/ e.status = 500
    \/ e.status = 503

isRpcError(e) == hasMessage(e) /\ includes(e.message, <<"error", "code:", "6">>)

\* The branch of retryOperation's catch block an error takes when retries remain.
Classify(e) ==
    IF isRateLimitError(e) THEN "rateLimited"
    ELSE IF isNetworkError(e) \/ isServerError(e) \/ isRpcError(e) THEN "transient"
    ELSE "fatal"

\* Failures of the external call: a quota error, a server error, and the
\* error extractQuestionsFromImage throws on an empty response.
QuotaError == Err(0, 429, "", <<>>)

ServerError == Err(0, 500, "", <<>>)

EmptyError == Err(0, 0, "", <<"No", "data", "returned", "from", "AI">>)

WorkErrors == { QuotaError, ServerError, EmptyError }

\* Errors to classify. error.status is one field, a number or a string: an
\* error has a numeric status or a status text, never both.
ClassifyMessages ==
    { <<"Quota", "exceeded">>, <<"quota", "exceeded">>, <<"QUOTA">>,
      <<"Resource", "Exhausted">>, <<"resource", "exhausted">>,
      <<"HTTP", "429">>,
      <<"Network", "Error">>, <<"network", "error">>,
      <<"Failed", "to", "fetch">>, <<"FETCH", "aborted">>,
      <<"xhr", "error">>,
      <<"RPC", "error", "code:", "6">>, <<"RPC", "Error", "Code:", "6">>,
      <<"No", "data", "returned", "from", "AI">> }

ClassifyErrors ==
    { Err(c, 0, "", <<>>) : c \in {0, 429, 500, 503, 404} }
    \cup { Err(0, s, "", <<>>) : s \in {429, 500, 503, 404} }
    \cup { Err(0, 0, st, <<>>) : st \in {"RESOURCE_EXHAUSTED", "UNAVAILABLE"} }
    \cup { Err(0, 0, "", m) : m \in ClassifyMessages }
    \cup { Err(500, 429, "", <<>>),
           Err(0, 503, "", <<"Quota", "exceeded">>),
           Err(0, 503, "", <<"No", "data", "returned", "from", "AI">>),
           Err(0, 404, "", <<"Network", "Error">>) }

\* setTimeout takes whole milliseconds of 5000 + Math.random() * 3000.
RateLimitWaits == { RateLimitBase, RateLimitBase + RateLimitSpan }


\* -------------------------------------------------------------- state
VARIABLES
    concurrency,   \* PromiseQueue.concurrency, fixed by the constructor
    queue,         \* PromiseQueue.queue: the QueueItems not yet dispatched
    running,       \* PromiseQueue.running
    nextId,        \* the number of add() calls made so far, plus one
    task,          \* per add() call: its closure, its retryOperation frame and
                   \* the error its catch block caught last
    outcome,       \* per task: what its retryOperation promise settled with
    handle,        \* per task: the promise add() returned
    dispatched,    \* the tasks run() has started, in the order it started them
    queuedAtAdd,   \* per task: the tasks waiting in the queue when it was added
    failures       \* failures of the external call so far

vars == << concurrency, queue, running, nextId, task, outcome, handle,
           dispatched, queuedAtAdd, failures >>

\* A task no add() call has created yet.
NoTask ==
    [ priority |-> FALSE, argRetries |-> NoArg, argDelay |-> NoArg,
      state |-> "Unsubmitted", pc |-> "none",
      retries |-> 0, delay |-> 0, invocations |-> 0,
      waits |-> 0, wait |-> 0, rateLimited |-> 0, caught |-> NoError ]

\* What the external call of task t returns on its i-th invocation (the
\* response of that call), and the absence of a value.
Result(t, i) == [task |-> t, attempt |-> i]

NoValue == [task |-> 0, attempt |-> 0]

NoOutcome == [settled |-> FALSE, ok |-> FALSE, err |-> NoError, value |-> NoValue]

\* A promise fulfilled with value v, and one rejected with error e.
Fulfilled(v) == [settled |-> TRUE, ok |-> TRUE, err |-> NoError, value |-> v]

Rejected(e) == [settled |-> TRUE, ok |-> FALSE, err |-> e, value |-> NoValue]

NoHandle == [status |-> "pending", err |-> NoError, value |-> NoValue, settles |-> 0]

Init ==
    /\ concurrency \in {1, MaxConcurrency}
    /\ queue = <<>>
    /\ running = 0
    /\ nextId = 1
    /\ task = [t \in Tasks |-> NoTask]
    /\ outcome = [t \in Tasks |-> NoOutcome]
    /\ handle = [t \in Tasks |-> NoHandle]
    /\ dispatched = <<>>
    /\ queuedAtAdd = [t \in Tasks |-> {}]
    /\ failures = 0

\* ------------------------------------------------- PromiseQueue.add
\* Mutant of findIndex: findLastIndex, the last normal entry instead of the first.
findIndex_last(q) ==
    IF \E i \in 1..Len(q) : ~q[i].priority
    THEN (CHOOSE i \in 1..Len(q) :
              /\ ~q[i].priority
              /\ \A j \in (i + 1)..Len(q) : q[j].priority) - 1
    ELSE 0 - 1

\* Mutant of findIndex: the test is written without its negation, the index
\* of the first priority entry is returned.
findIndex_priority(q) ==
    IF \E i \in 1..Len(q) : q[i].priority
    THEN (CHOOSE i \in 1..Len(q) :
              /\ q[i].priority
              /\ \A j \in 1..(i - 1) : ~q[j].priority) - 1
    ELSE 0 - 1

\* Array.prototype.findIndex((i) => !i.priority): 0-based, -1 when none.
findIndex(q) ==
    IF \E i \in 1..Len(q) : ~q[i].priority
    THEN (CHOOSE i \in 1..Len(q) :
              /\ ~q[i].priority
              /\ \A j \in 1..(i - 1) : q[j].priority) - 1
    ELSE 0 - 1

\* Mutant of splice: splice(index, 1, item), the entry at index is replaced.
splice_replaces(q, index, item) ==
    SubSeq(q, 1, index) \o << item >> \o SubSeq(q, index + 2, Len(q))

\* Mutant of splice: the item goes in one place too late.
splice_after(q, index, item) ==
    SubSeq(q, 1, index + 1) \o <<item>> \o SubSeq(q, index + 2, Len(q))

\* Array.prototype.splice(index, 0, item), index 0-based.
splice(q, index, item) ==
    SubSeq(q, 1, index) \o <<item>> \o SubSeq(q, index + 1, Len(q))

\* Mutant of enqueue: the priority flag is ignored, every item is pushed.
enqueue_pushAlways(q, item) == Append(q, item)

\* Lines 35-44 of add(): where the new item goes.
enqueue(q, item) ==
    IF item.priority
    THEN LET insertIndex == findIndex(q)
         IN  IF insertIndex = 0 - 1
             THEN Append(q, item)
             ELSE splice(q, insertIndex, item)
    ELSE Append(q, item)

\* ------------------------------------------------- PromiseQueue.run
\* Mutant of hasSlot: the guard written with <= lets one task too many in.
hasSlot_inclusive(r, q) == r <= concurrency /\ Len(q) > 0

\* Mutant of hasSlot: a task waiting between two attempts does not count
\* against the limit.
hasSlot_waitingFree(r, q) ==
    /\ r - Cardinality({ t \in Tasks : task[t].state = "Retrying" }) < concurrency
    /\ Len(q) > 0

\* The loop guard of run().
hasSlot(r, q) == r < concurrency /\ Len(q) > 0

\* Mutant of run: pop() instead of shift(), the newest entry is started first.
RECURSIVE run_pop(_, _, _)
run_pop(q, r, started) ==
    IF hasSlot(r, q)
    THEN run_pop(SubSeq(q, 1, Len(q) - 1), r + 1, Append(started, q[Len(q)].task))
    ELSE [queue |-> q, running |-> r, started |-> started]

\* Mutant of run: the slot is checked once, before the loop, and the count is
\* written back after it, so that every waiting entry is let in on one slot.
run_staleCheck(q, r, started) ==
    IF hasSlot(r, q)
    THEN [ queue |-> <<>>, running |-> r + Len(q),
           started |-> started \o [i \in 1..Len(q) |-> q[i].task] ]
    ELSE [queue |-> q, running |-> r, started |-> started]

\* The while loop of run(): shift the head, count it, start it.
RECURSIVE run(_, _, _)
run(q, r, started) ==
    IF hasSlot(r, q)
    THEN run(Tail(q), r + 1, Append(started, Head(q).task))
    ELSE [queue |-> q, running |-> r, started |-> started]

Range(s) == { s[i] : i \in 1..Len(s) }

\* Mutant of startTask: the default budget is the 4 retries it was reduced from.
startTask_fourRetries(tk) ==
    [ tk EXCEPT
        !.state = "Running",
        !.pc = "await",
        !.retries = IF tk.argRetries = NoArg THEN 4 ELSE tk.argRetries,
        !.delay = IF tk.argDelay = NoArg THEN DefaultDelay ELSE tk.argDelay,
        !.invocations = 1 ]

\* Mutant of startTask: the delay is kept in one variable of the module,
\* doubled by every retry of any task and never reset.
startTask_sharedDelay(tk) ==
    [ tk EXCEPT
        !.state = "Running",
        !.pc = "await",
        !.retries = IF tk.argRetries = NoArg THEN DefaultRetries ELSE tk.argRetries,
        !.delay = LET own == IF tk.argDelay = NoArg THEN DefaultDelay ELSE tk.argDelay
                      shared == CHOOSE d \in { task[u].delay : u \in Tasks } :
                                    \A u \in Tasks : task[u].delay <= d
                  IN  IF shared > own THEN shared ELSE own,
        !.invocations = 1 ]

\* item.task() runs wrappedTask up to its await: task() calls retryOperation
\* with the closure's arguments (or the defaults), which calls operation().
startTask(tk) ==
    [ tk EXCEPT
        !.state = "Running",
        !.pc = "await",
        !.retries = IF tk.argRetries = NoArg THEN DefaultRetries ELSE tk.argRetries,
        !.delay = IF tk.argDelay = NoArg THEN DefaultDelay ELSE tk.argDelay,
        !.invocations = 1 ]

startAll(tks, started) ==
    [ u \in Tasks |-> IF u \in Range(started) THEN startTask(tks[u]) ELSE tks[u] ]

\* Mutant of add: a priority task added while the gate is full takes the slot
\* of a task in flight, which goes back to the head of the queue.
add_preempts(p, r, d) ==
    /\ LET t == nextId
           item == [task |-> t, priority |-> p]
           inFlight == { u \in Tasks : task[u].state \in {"Running", "Retrying"} }
           created == [ task EXCEPT ![t] =
                          [ NoTask EXCEPT
                              !.priority = p, !.argRetries = r, !.argDelay = d,
                              !.state = "Pending", !.pc = "queued" ] ]
       IN  /\ IF p /\ running >= concurrency /\ inFlight # {}
              THEN LET v == CHOOSE u \in inFlight : TRUE
                   IN  /\ queue' = <<[task |-> v, priority |-> task[v].priority]>> \o queue
                       /\ running' = running
                       /\ dispatched' = Append(dispatched, t)
                       /\ task' = [ startAll(created, <<t>>) EXCEPT
                                      ![v].state = "Pending", ![v].pc = "queued" ]
              ELSE LET res == run(enqueue(queue, item), running, <<>>)
                   IN  /\ queue' = res.queue
                       /\ running' = res.running
                       /\ dispatched' = dispatched \o res.started
                       /\ task' = startAll(created, res.started)
           /\ queuedAtAdd' = [queuedAtAdd EXCEPT ![t] = { queue[i].task : i \in 1..Len(queue) }]
           /\ nextId' = nextId + 1
    /\ UNCHANGED << concurrency, outcome, handle, failures >>

\* Mutant of add: the call does not return until a slot is free.
add_blocks(p, r, d) ==
    /\ running < concurrency
    /\ LET t == nextId
           item == [task |-> t, priority |-> p]
           res == run(enqueue(queue, item), running, <<>>)
           created == [ task EXCEPT ![t] =
                          [ NoTask EXCEPT
                              !.priority = p, !.argRetries = r, !.argDelay = d,
                              !.state = "Pending", !.pc = "queued" ] ]
       IN  /\ queue' = res.queue
           /\ running' = res.running
           /\ dispatched' = dispatched \o res.started
           /\ task' = startAll(created, res.started)
           /\ queuedAtAdd' = [queuedAtAdd EXCEPT ![t] = { queue[i].task : i \in 1..Len(queue) }]
           /\ nextId' = nextId + 1
    /\ UNCHANGED << concurrency, outcome, handle, failures >>

\* Mutant of add: the item is inserted and run() is not called.
add_noRun(p, r, d) ==
    /\ LET t == nextId
           item == [task |-> t, priority |-> p]
       IN  /\ queue' = enqueue(queue, item)
           /\ task' = [ task EXCEPT ![t] =
                          [ NoTask EXCEPT
                              !.priority = p, !.argRetries = r, !.argDelay = d,
                              !.state = "Pending", !.pc = "queued" ] ]
           /\ queuedAtAdd' = [queuedAtAdd EXCEPT ![t] = { queue[i].task : i \in 1..Len(queue) }]
           /\ nextId' = nextId + 1
    /\ UNCHANGED << concurrency, running, dispatched, outcome, handle, failures >>

\* add(task, priority): one call, up to the return of the new promise.
add(p, r, d) ==
    /\ LET t == nextId
           item == [task |-> t, priority |-> p]
           res == run(enqueue(queue, item), running, <<>>)
           created == [ task EXCEPT ![t] =
                          [ NoTask EXCEPT
                              !.priority = p, !.argRetries = r, !.argDelay = d,
                              !.state = "Pending", !.pc = "queued" ] ]
       IN  /\ queue' = res.queue
           /\ running' = res.running
           /\ dispatched' = dispatched \o res.started
           /\ task' = startAll(created, res.started)
           /\ queuedAtAdd' = [queuedAtAdd EXCEPT ![t] = { queue[i].task : i \in 1..Len(queue) }]
           /\ nextId' = nextId + 1
    /\ UNCHANGED << concurrency, outcome, handle, failures >>

\* ---------------------------------------------------- retryOperation
\* Mutant of operationResolves: the recursive call is not returned
\* ("retryOperation(...)" for "return retryOperation(...)"), so that the
\* result of a retry is lost.
operationResolves_dropsRetryResult(t) ==
    /\ task[t].state = "Running"
    /\ task' = [task EXCEPT ![t].state = "Succeeded"]
    /\ outcome' = [outcome EXCEPT ![t] =
                      Fulfilled(IF task[t].waits > 0 THEN NoValue
                                ELSE Result(t, task[t].invocations))]
    /\ UNCHANGED << concurrency, queue, running, nextId, handle, dispatched,
                    queuedAtAdd, failures >>

\* "return await operation()": the awaited call resolved, and so does the
\* promise of the outermost retryOperation.
operationResolves(t) ==
    /\ task[t].state = "Running"
    /\ task' = [task EXCEPT ![t].state = "Succeeded"]
    /\ outcome' = [outcome EXCEPT ![t] = Fulfilled(Result(t, task[t].invocations))]
    /\ UNCHANGED << concurrency, queue, running, nextId, handle, dispatched,
                    queuedAtAdd, failures >>

\* Mutant of throwError: after a retry, the error of the previous attempt is
\* thrown in place of the one just caught.
throwError_previous(t, e) ==
    /\ task' = [task EXCEPT ![t].state = "Failed", ![t].caught = e]
    /\ outcome' = [outcome EXCEPT ![t] =
                      Rejected(IF task[t].waits > 0 THEN task[t].caught ELSE e)]

\* "throw error" (lines 78 and 120): retryOperation's promise rejects.
throwError(t, e) ==
    /\ task' = [task EXCEPT ![t].state = "Failed", ![t].caught = e]
    /\ outcome' = [outcome EXCEPT ![t] = Rejected(e)]

\* "await wait(ms)" (lines 96 and 117): the frame is suspended on the timer.
startWait(t, e, ms, rl) ==
    /\ task' = [task EXCEPT ![t].state = "Retrying",
                            ![t].caught = e,
                            ![t].waits = @ + 1,
                            ![t].wait = ms,
                            ![t].rateLimited = @ + rl]
    /\ UNCHANGED outcome

\* Mutant of exhausted: the last retry is never made.
exhausted_early(t) == task[t].retries <= 1

\* Mutant of exhausted: "retries < 0" for "retries <= 0", one retry too many.
exhausted_late(t) == task[t].retries < 0

\* Whether the catch block gives up at once (line 78).
exhausted(t) == task[t].retries <= 0

\* Mutant of operationRejects: the final "throw error" is missing, an error
\* that is neither rate-limited nor transient is retried after the delay.
operationRejects_retryAll(t, e, w) ==
    /\ task[t].state = "Running"
    /\ failures' = failures + 1
    /\ IF exhausted(t) THEN throwError(t, e)
       ELSE IF isRateLimitError(e) THEN startWait(t, e, w, 1)
       ELSE startWait(t, e, task[t].delay, 0)
    /\ UNCHANGED << concurrency, queue, running, nextId, handle, dispatched,
                    queuedAtAdd >>

\* Mutant of operationRejects: the wait after a rate-limited failure is the
\* current delay.
operationRejects_waitsDelay(t, e, w) ==
    /\ task[t].state = "Running"
    /\ failures' = failures + 1
    /\ IF exhausted(t) THEN throwError(t, e)
       ELSE IF isRateLimitError(e) THEN startWait(t, e, task[t].delay, 1)
       ELSE IF isNetworkError(e) \/ isServerError(e) \/ isRpcError(e)
            THEN startWait(t, e, task[t].delay, 0)
       ELSE throwError(t, e)
    /\ UNCHANGED << concurrency, queue, running, nextId, handle, dispatched,
                    queuedAtAdd >>

\* Mutant of operationRejects: the transient tests come before the
\* rate-limit test.
operationRejects_transientFirst(t, e, w) ==
    /\ task[t].state = "Running"
    /\ failures' = failures + 1
    /\ IF exhausted(t) THEN throwError(t, e)
       ELSE IF isNetworkError(e) \/ isServerError(e) \/ isRpcError(e)
            THEN startWait(t, e, task[t].delay, 0)
       ELSE IF isRateLimitError(e) THEN startWait(t, e, w, 1)
       ELSE throwError(t, e)
    /\ UNCHANGED << concurrency, queue, running, nextId, handle, dispatched,
                    queuedAtAdd >>

\* The catch block of retryOperation: the awaited call rejected with e; w is
\* the value 5000 + Math.random() * 3000 takes if it is computed.
operationRejects(t, e, w) ==
    /\ task[t].state = "Running"
    /\ failures' = failures + 1
    /\ IF exhausted(t) THEN throwError(t, e)
       ELSE IF isRateLimitError(e) THEN startWait(t, e, w, 1)
       ELSE IF isNetworkError(e) \/ isServerError(e) \/ isRpcError(e)
            THEN startWait(t, e, task[t].delay, 0)
       ELSE throwError(t, e)
    /\ UNCHANGED << concurrency, queue, running, nextId, handle, dispatched,
                    queuedAtAdd >>

\* Mutant of waitElapsed: the recursive call passes delay, not delay * 2.
waitElapsed_sameDelay(t) ==
    /\ task[t].state = "Retrying"
    /\ task' = [task EXCEPT ![t].state = "Running",
                            ![t].retries = @ - 1,
                            ![t].invocations = @ + 1]
    /\ UNCHANGED << concurrency, queue, running, nextId, outcome, handle,
                    dispatched, queuedAtAdd, failures >>

\* Mutant of waitElapsed: the delay is doubled after a transient failure only.
waitElapsed_rateLimitKeepsDelay(t) ==
    /\ task[t].state = "Retrying"
    /\ task' = [task EXCEPT ![t].state = "Running",
                            ![t].retries = @ - 1,
                            ![t].delay = IF isRateLimitError(task[t].caught)
                                         THEN @ ELSE @ * 2,
                            ![t].invocations = @ + 1]
    /\ UNCHANGED << concurrency, queue, running, nextId, outcome, handle,
                    dispatched, queuedAtAdd, failures >>

\* Mutant of waitElapsed: the retry is made by putting the task back at the
\* end of the queue and giving its slot back.
waitElapsed_requeues(t) ==
    /\ task[t].state = "Retrying"
    /\ task' = [task EXCEPT ![t].state = "Pending",
                            ![t].pc = "queued",
                            ![t].retries = @ - 1,
                            ![t].delay = @ * 2]
    /\ queue' = Append(queue, [task |-> t, priority |-> task[t].priority])
    /\ running' = running - 1
    /\ UNCHANGED << concurrency, nextId, outcome, handle, dispatched,
                    queuedAtAdd, failures >>

\* Mutant of waitElapsed: the recursive call passes retries, not retries - 1.
waitElapsed_keepsRetries(t) ==
    /\ task[t].state = "Retrying"
    /\ task' = [task EXCEPT ![t].state = "Running",
                            ![t].delay = @ * 2,
                            ![t].invocations = @ + 1]
    /\ UNCHANGED << concurrency, queue, running, nextId, outcome, handle,
                    dispatched, queuedAtAdd, failures >>

\* The timer fired: "return retryOperation(operation, retries - 1, delay * 2)",
\* which calls operation() again.
waitElapsed(t) ==
    /\ task[t].state = "Retrying"
    /\ task' = [task EXCEPT ![t].state = "Running",
                            ![t].retries = @ - 1,
                            ![t].delay = @ * 2,
                            ![t].invocations = @ + 1]
    /\ UNCHANGED << concurrency, queue, running, nextId, outcome, handle,
                    dispatched, queuedAtAdd, failures >>

\* ------------------------------------------------------- wrappedTask
\* Mutant of settle: "await task().catch(reject); resolve(result)" calls
\* reject and then resolve when the task fails.
settle_rejectThenResolve(h, o) ==
    [ status |-> IF h.status # "pending" THEN h.status
                 ELSE IF o.ok THEN "resolved" ELSE "rejected",
      err |-> IF h.status # "pending" THEN h.err ELSE o.err,
      value |-> IF h.status # "pending" THEN h.value ELSE o.value,
      settles |-> IF o.ok THEN h.settles + 1 ELSE h.settles + 2 ]

\* resolve(result) / reject(err) of the promise add() returned: a promise
\* keeps its first settlement; settles counts the calls.
settle(h, o) ==
    [ status |-> IF h.status # "pending" THEN h.status
                 ELSE IF o.ok THEN "resolved" ELSE "rejected",
      err |-> IF h.status # "pending" THEN h.err ELSE o.err,
      value |-> IF h.status # "pending" THEN h.value ELSE o.value,
      settles |-> h.settles + 1 ]

\* Mutant of wrappedTaskContinues: the slot is given back in wrappedTask, as
\* the handle is settled, and again in the finally() callback.
wrappedTaskContinues_releases(t) ==
    /\ task[t].pc = "await"
    /\ outcome[t].settled
    /\ handle' = [handle EXCEPT ![t] = settle(handle[t], outcome[t])]
    /\ task' = [task EXCEPT ![t].pc = "returned"]
    /\ running' = running - 1
    /\ UNCHANGED << concurrency, queue, nextId, outcome, dispatched,
                    queuedAtAdd, failures >>

\* Mutant of wrappedTaskContinues: results are delivered in the order of the
\* add() calls, a handle waits for the handles of all earlier calls.
wrappedTaskContinues_inOrder(t) ==
    /\ task[t].pc = "await"
    /\ outcome[t].settled
    /\ \A u \in 1..(t - 1) : handle[u].status # "pending"
    /\ handle' = [handle EXCEPT ![t] = settle(handle[t], outcome[t])]
    /\ task' = [task EXCEPT ![t].pc = "returned"]
    /\ UNCHANGED << concurrency, queue, running, nextId, outcome, dispatched,
                    queuedAtAdd, failures >>

\* wrappedTask after "await task()": lines 27 and 29.
wrappedTaskContinues(t) ==
    /\ task[t].pc = "await"
    /\ outcome[t].settled
    /\ handle' = [handle EXCEPT ![t] = settle(handle[t], outcome[t])]
    /\ task' = [task EXCEPT ![t].pc = "returned"]
    /\ UNCHANGED << concurrency, queue, running, nextId, outcome, dispatched,
                    queuedAtAdd, failures >>

\* Mutant of finallyCallback: the slot is released but run() is not called.
finallyCallback_noRun(t) ==
    /\ task[t].pc = "returned"
    /\ running' = running - 1
    /\ task' = [task EXCEPT ![t].pc = "released"]
    /\ UNCHANGED << concurrency, queue, nextId, outcome, handle, dispatched,
                    queuedAtAdd, failures >>

\* Mutant of finallyCallback: the slot count is decremented twice.
finallyCallback_twice(t) ==
    /\ task[t].pc = "returned"
    /\ LET res == run(queue, running - 2, <<>>)
       IN  /\ queue' = res.queue
           /\ running' = res.running
           /\ dispatched' = dispatched \o res.started
           /\ task' = startAll([task EXCEPT ![t].pc = "released"], res.started)
    /\ UNCHANGED << concurrency, nextId, outcome, handle, queuedAtAdd, failures >>

\* Mutant of finallyCallback: then() for finally(), and the task promise of
\* a failed task rejected: the callback runs after a success only.
finallyCallback_onlyOnSuccess(t) ==
    /\ task[t].pc = "returned"
    /\ outcome[t].ok
    /\ LET res == run(queue, running - 1, <<>>)
       IN  /\ queue' = res.queue
           /\ running' = res.running
           /\ dispatched' = dispatched \o res.started
           /\ task' = startAll([task EXCEPT ![t].pc = "released"], res.started)
    /\ UNCHANGED << concurrency, nextId, outcome, handle, queuedAtAdd, failures >>

\* Mutant of finallyCallback: run() is called and the count is not decremented.
finallyCallback_keepsSlot(t) ==
    /\ task[t].pc = "returned"
    /\ LET res == run(queue, running, <<>>)
       IN  /\ queue' = res.queue
           /\ running' = res.running
           /\ dispatched' = dispatched \o res.started
           /\ task' = startAll([task EXCEPT ![t].pc = "released"], res.started)
    /\ UNCHANGED << concurrency, nextId, outcome, handle, queuedAtAdd, failures >>

\* The finally() callback of run(): lines 56-57.
finallyCallback(t) ==
    /\ task[t].pc = "returned"
    /\ LET res == run(queue, running - 1, <<>>)
       IN  /\ queue' = res.queue
           /\ running' = res.running
           /\ dispatched' = dispatched \o res.started
           /\ task' = startAll([task EXCEPT ![t].pc = "released"], res.started)
    /\ UNCHANGED << concurrency, nextId, outcome, handle, queuedAtAdd, failures >>

\* ------------------------------------------------------ specification
Call(p, r, d) == [priority |-> p, retries |-> r, delay |-> d]

\* Mutant of CallSites: extractQuestionsFromImage adds its task as a normal one.
CallSites_extractNormal ==
    { Call(FALSE, DefaultRetries, CallerDelay),
      Call(FALSE, NoArg, NoArg),
      Call(TRUE, NoArg, NoArg) }

\* The calls of solvingQueue.add in the source: extractQuestionsFromImage,
\* solveQuestionBatch and solveSpecificQuestion, regenerateQuestionData.
CallSites ==
    { Call(TRUE, DefaultRetries, CallerDelay),
      Call(FALSE, NoArg, NoArg),
      Call(TRUE, NoArg, NoArg) }

\* solveSpecificQuestion and regenerateQuestionData: one call of each class.
PriorityCalls == { Call(FALSE, NoArg, NoArg), Call(TRUE, NoArg, NoArg) }

\* Calls with any retry budget up to MaxRetries, and with none given.
BudgetCalls ==
    { Call(p, r, NoArg) : p \in BOOLEAN, r \in {NoArg} \cup 0..MaxRetries }

\* One step of the program: its add() calls are drawn from calls, at most n of
\* them, and the external call fails at most f times, with an error of errs.
Step(calls, n, errs, f) ==
    \/ \E c \in calls : nextId <= n /\ add(c.priority, c.retries, c.delay)
    \/ \E t \in Tasks : operationResolves(t)
    \/ \E t \in Tasks, e \in errs, w \in RateLimitWaits :
          failures < f /\ operationRejects(t, e, w)
    \/ \E t \in Tasks : waitElapsed(t)
    \/ \E t \in Tasks : wrappedTaskContinues(t)
    \/ \E t \in Tasks : finallyCallback(t)

\* The scheduler under every call site of the source; the external call fails
\* with a retryable or with a fatal error.
Next == Step(CallSites, MaxTasks - 1, {ServerError, EmptyError}, MaxFailures)

Spec == Init /\ [][Next]_vars

\* Every awaited call returns (unless it fails first), every timer fires, and
\* the event loop runs every continuation that is ready. add() calls are the
\* user's and are not forced.
Fairness ==
    \A t \in Tasks :
        /\ WF_vars(operationResolves(t))
        /\ WF_vars(waitElapsed(t))
        /\ WF_vars(wrappedTaskContinues(t))
        /\ WF_vars(finallyCallback(t))

FairSpec == Spec /\ Fairness

\* The queue order: more tasks, the two priority classes with the default
\* retry arguments, the external call failing with a retryable error.
OrderNext == Step(PriorityCalls, MaxTasks, {ServerError}, MaxFailures)

OrderSpec == Init /\ [][OrderNext]_vars

\* The retry policy: the retry budget varies, every kind of error occurs, and
\* the external call fails often enough to exhaust the largest budget.
RetryNext == Step(BudgetCalls, MaxTasks - 3, WorkErrors, MaxRetries + 1)

RetrySpec == Init /\ [][RetryNext]_vars

\* The attempt loop under fair scheduling: normal tasks with any retry budget
\* up to MaxRetries, or none given, failing with every kind of error.
LoopCalls == { Call(FALSE, r, NoArg) : r \in {NoArg} \cup 0..MaxRetries }

LoopNext == Step(LoopCalls, MaxTasks - 3, WorkErrors, MaxRetries + 1)

LoopSpec == Init /\ [][LoopNext]_vars /\ Fairness

\* The gate under fair scheduling: two tasks of either class, the external
\* call failing with a server error.
GateNext == Step(PriorityCalls, MaxTasks - 2, {ServerError}, MaxFailures)

GateSpec == Init /\ [][GateNext]_vars /\ Fairness

\* Waiting in the queue under fair scheduling: tasks of either class, all
\* but one of MaxTasks, the external call failing with a server error.
WaitNext == Step(PriorityCalls, MaxTasks - 1, {ServerError}, MaxFailures)

WaitSpec == Init /\ [][WaitNext]_vars /\ Fairness

\* The backoff: one task of each call site of the source, so that the first
\* delay is the default or the caller's, failing with every kind of error.
BackoffNext == Step(CallSites, MaxTasks - 3, WorkErrors, MaxRetries + 1)

BackoffSpec == Init /\ [][BackoffNext]_vars

\* The classification: one task with the default budget and delay, failing
\* with any of the errors to classify.
ClassifyNext == Step(PriorityCalls, MaxTasks - 3, ClassifyErrors, MaxFailures)

ClassifySpec == Init /\ [][ClassifyNext]_vars

\* ------------------------------------------------------------ claims
Submitted(t) == task[t].state # "Unsubmitted"

Dispatched(t) == t \in Range(dispatched)

\* The place of a dispatched task in the order of dispatch.
Pos(t) == CHOOSE i \in 1..Len(dispatched) : dispatched[i] = t

Settled(t) == handle[t].status \in {"resolved", "rejected"}

\* C1: in every reachable state the running counter is at least 0 and at
\* most the concurrency limit the queue was built with.
C1_RunningWithinLimit == 0 <= running /\ running <= concurrency

\* The gate is full with a task waiting behind it, one task has released its
\* slot and the task holding the slot is between two attempts.
C1_Witness ==
    /\ running = concurrency
    /\ Len(queue) > 0
    /\ \E t \in Tasks : task[t].pc = "released"
    /\ \E t \in Tasks : task[t].state = "Retrying"

\* C2: under fair scheduling (every call returns or fails, every timer
\* fires, every ready continuation runs) every submitted task's handle is
\* eventually resolved or rejected, by exactly one settlement.
C2_NoLoss ==
    \A t \in Tasks :
        Submitted(t) ~> (Settled(t) /\ handle[t].settles = 1)

\* One handle was rejected and the handle of a task that waited in the queue
\* behind another task was resolved.
C2_Witness ==
    \E t, u \in Tasks :
        /\ handle[t].status = "rejected"
        /\ handle[u].status = "resolved"
        /\ queuedAtAdd[u] # {} \/ Pos(u) > concurrency

\* C3: resolve/reject is called at most once on a task's handle, and once the
\* handle is settled nothing about it changes again.
C3_HandleSettledOnce ==
    /\ [](\A t \in Tasks : handle[t].settles <= 1)
    /\ [][\A t \in Tasks : Settled(t) => handle'[t] = handle[t]]_vars

\* A handle settled once after its task made more than one attempt.
C3_Witness ==
    \E t \in Tasks :
        /\ Settled(t)
        /\ handle[t].settles = 1
        /\ task[t].invocations >= 2

\* The tasks of a sequence of QueueItems.
ids(q) == [i \in 1..Len(q) |-> q[i].task]

\* C4: a high task added while normal tasks were waiting in the queue is
\* dispatched before each of them.
C4_HighBeforeWaitingNormal ==
    \A h, n \in Tasks :
        ( /\ Submitted(h) /\ task[h].priority
          /\ n \in queuedAtAdd[h] /\ ~task[n].priority
          /\ Dispatched(n) )
        => (Dispatched(h) /\ Pos(h) < Pos(n))

\* A high task was added while two normal tasks were waiting, and all three
\* have been dispatched since.
C4_Witness ==
    \E h, n1, n2 \in Tasks :
        /\ n1 # n2
        /\ task[h].priority /\ ~task[n1].priority /\ ~task[n2].priority
        /\ {n1, n2} \subseteq queuedAtAdd[h]
        /\ Dispatched(n1) /\ Dispatched(n2)

\* C5: of two tasks of the same class, the one added first is dispatched
\* first (tasks are numbered in the order of their add() calls).
C5_FifoWithinClass ==
    \A a, b \in Tasks :
        ( /\ a < b /\ Submitted(b)
          /\ task[a].priority = task[b].priority
          /\ Dispatched(b) )
        => (Dispatched(a) /\ Pos(a) < Pos(b))

\* Two tasks of one class waited in the queue together, a task of the other
\* class was added meanwhile, and all of them have been dispatched.
C5_Witness ==
    \E a, b, c \in Tasks :
        /\ a < b
        /\ task[a].priority = task[b].priority
        /\ task[c].priority # task[a].priority
        /\ a \in queuedAtAdd[b]
        /\ c \in queuedAtAdd[b] \/ a \in queuedAtAdd[c]
        /\ Dispatched(a) /\ Dispatched(b) /\ Dispatched(c)

\* C6: the queue is high entries followed by normal entries, and the entries
\* of one class are in the order of their add() calls.
C6_QueueShape ==
    \A i, j \in 1..Len(queue) :
        i < j =>
            /\ queue[i].priority \/ ~queue[j].priority
            /\ queue[i].priority = queue[j].priority => queue[i].task < queue[j].task

\* The queue holds entries of both classes and two of one class.
C6_Witness ==
    /\ Len(queue) >= 3
    /\ \E i, j \in 1..Len(queue) : queue[i].priority /\ ~queue[j].priority

\* C7: an add() call puts a high task at the index of the first normal entry
\* of the queue (after every high entry, before every normal one, at the tail
\* when there is no normal entry) and a normal task at the tail; the queue
\* right after the insertion is what this call's run() started, followed by
\* what it left in the queue.
C7_InsertionRule ==
    [][ nextId' = nextId + 1 =>
          LET t == nextId
              q == ids(queue)
              inserted == SubSeq(dispatched', Len(dispatched) + 1, Len(dispatched'))
                              \o ids(queue')
              normals == { i \in 1..Len(queue) : ~queue[i].priority }
              at == IF task'[t].priority /\ normals # {}
                    THEN CHOOSE i \in normals : \A j \in normals : i <= j
                    ELSE Len(queue) + 1
          IN  /\ inserted = SubSeq(q, 1, at - 1) \o <<t>> \o SubSeq(q, at, Len(q))
              /\ task'[t].priority =>
                    /\ \A i \in 1..(at - 1) : queue[i].priority
                    /\ \A i \in at..Len(queue) : ~queue[i].priority
    ]_vars

\* A high task went between a high and a normal entry that were waiting.
C7_Witness ==
    \E h, a, b \in Tasks :
        /\ task[h].priority /\ task[a].priority /\ ~task[b].priority
        /\ {a, b} \subseteq queuedAtAdd[h]
        /\ ids(queue) = <<a, h, b>>

\* C8: an add() call leaves every task that is Running or Retrying as it is
\* and out of the queue; with the gate full the new task stays Pending and
\* nothing is started; a Pending task starts only in its own add() call or in
\* a step in which a finished task releases its slot.
C8_NoPreemption ==
    [][ /\ nextId' = nextId + 1 =>
            /\ \A u \in Tasks :
                  task[u].state \in {"Running", "Retrying"} =>
                      /\ task'[u] = task[u]
                      /\ outcome'[u] = outcome[u]
                      /\ u \notin Range(ids(queue'))
            /\ running = concurrency =>
                  /\ task'[nextId].state = "Pending"
                  /\ running' = running
                  /\ dispatched' = dispatched
        /\ \A u \in Tasks :
              task[u].state = "Pending" /\ task'[u].state # "Pending" =>
                  \E v \in Tasks : task[v].pc = "returned" /\ task'[v].pc = "released"
    ]_vars

\* A high task waits in the queue while the gate is full and a task holding
\* a slot is between two attempts.
C8_Witness ==
    /\ running = concurrency
    /\ \E h, u \in Tasks :
          /\ task[h].priority /\ task[h].state = "Pending"
          /\ task[u].state = "Retrying"

\* The retry budget of a task: the retries argument of its retryOperation call.
Budget(t) == IF task[t].argRetries = NoArg THEN DefaultRetries ELSE task[t].argRetries

\* Every attempt of a failed task failed with an error classified transient.
FailedAlwaysTransient(t) ==
    /\ task[t].state = "Failed"
    /\ task[t].rateLimited = 0
    /\ Classify(outcome[t].err) = "transient"

\* C9 as stated: a task whose work always fails with a transient error is
\* attempted exactly as many times as the budget passed to the retry policy.
C9_AttemptsEqualBudget ==
    \A t \in Tasks :
        FailedAlwaysTransient(t) => task[t].invocations = Budget(t)

\* C9 amended: such a task is attempted exactly budget + 1 times, the first
\* attempt and one per retry, and then is Failed: it has failed only after
\* budget + 1 attempts, and it never waits for a retry after them.
C9_AttemptsBudgetPlusOne ==
    \A t \in Tasks :
        /\ FailedAlwaysTransient(t) => task[t].invocations = Budget(t) + 1
        /\ task[t].state = "Retrying" => task[t].invocations <= Budget(t)

\* A task given the explicit budget 1 failed twice with a server error, is
\* Failed and its handle is rejected.
C9_Witness ==
    \E t \in Tasks :
        /\ task[t].argRetries = 1
        /\ FailedAlwaysTransient(t)
        /\ task[t].invocations = 2
        /\ handle[t].status = "rejected"

\* C10: a task added with no retry budget whose work always fails with a
\* retryable error has its work invoked exactly 3 times and then is Failed.
C10_DefaultThreeAttempts ==
    \A t \in Tasks :
        task[t].argRetries = NoArg =>
            /\ ( task[t].state = "Failed" /\ Classify(outcome[t].err) # "fatal" )
                   => task[t].invocations = 3
            /\ task[t].state = "Retrying" => task[t].invocations <= 2

\* A task with the default budget failed three times with status 500.
C10_Witness ==
    \E t \in Tasks :
        /\ task[t].argRetries = NoArg
        /\ task[t].state = "Failed"
        /\ outcome[t].err = ServerError
        /\ task[t].invocations = 3
        /\ task[t].waits = 2
        /\ handle[t].status = "rejected"

\* The step is the catch block of task t (the external call failed).
Rejects(t) == failures' = failures + 1 /\ task'[t] # task[t]

\* C11: a failure with an error that is neither rate-limited nor transient
\* ends the task at once, whatever budget remains: the task is Failed with
\* that error, no wait and no further invocation follow it, so a task whose
\* first failure is fatal is Failed after one invocation and no wait; a task
\* never waits for a retry after a fatal error.
C11_FatalFastFail ==
    /\ [](\A t \in Tasks :
            /\ task[t].state = "Retrying" => Classify(task[t].caught) # "fatal"
            /\ ( /\ task[t].state = "Failed"
                 /\ Classify(outcome[t].err) = "fatal"
                 /\ task[t].waits = 0 ) => task[t].invocations = 1)
    /\ [][\A t \in Tasks :
            (Rejects(t) /\ Classify(task'[t].caught) = "fatal") =>
                /\ task'[t].state = "Failed"
                /\ outcome'[t] = Rejected(task'[t].caught)
                /\ task'[t].waits = task[t].waits
                /\ task'[t].invocations = task[t].invocations
       ]_vars

\* A task with two retries left failed with the empty-response error: one
\* invocation, no wait, handle rejected.
C11_Witness ==
    \E t \in Tasks :
        /\ task[t].state = "Failed"
        /\ outcome[t].err = EmptyError
        /\ task[t].retries = 2
        /\ task[t].invocations = 1
        /\ task[t].waits = 0
        /\ handle[t].status = "rejected"

\* C12: a task waiting after a rate-limited failure waits between 5000 and
\* 8000 ms, whatever its current delay is.
C12_RateLimitWindow ==
    \A t \in Tasks :
        (task[t].state = "Retrying" /\ isRateLimitError(task[t].caught)) =>
            /\ 5000 <= task[t].wait
            /\ task[t].wait <= 8000

\* After one retry of a call with delay 3000 the current delay is 6000, and
\* the wait after a quota error is 5000.
C12_Witness ==
    \E t \in Tasks :
        /\ task[t].state = "Retrying"
        /\ task[t].caught = QuotaError
        /\ task[t].delay = 6000
        /\ task[t].wait = 5000

\* The delay argument of a task's retryOperation call.
BaseDelay(t) == IF task[t].argDelay = NoArg THEN DefaultDelay ELSE task[t].argDelay

RECURSIVE Pow2(_)
Pow2(k) == IF k <= 0 THEN 1 ELSE 2 * Pow2(k - 1)

\* C13: while every failure of a task has been transient, its wait before
\* the k-th retry is the caller's delay times 2^(k-1).
C13_ExponentialBackoff ==
    \A t \in Tasks :
        (task[t].state = "Retrying" /\ task[t].rateLimited = 0) =>
            task[t].wait = BaseDelay(t) * Pow2(task[t].waits - 1)

\* A call with delay 3000 waits 6000 before its second retry.
C13_Witness ==
    \E t \in Tasks :
        /\ task[t].state = "Retrying"
        /\ task[t].rateLimited = 0
        /\ task[t].argDelay = CallerDelay
        /\ task[t].waits = 2
        /\ task[t].wait = 6000

\* C14: after k >= 1 rate-limited failures, the wait after a transient failure
\* is the caller's delay times 2^k, not the caller's delay.
C14_RateLimitDoublesDelay ==
    \A t \in Tasks :
        ( /\ task[t].state = "Retrying"
          /\ Classify(task[t].caught) = "transient"
          /\ task[t].rateLimited >= 1
          /\ task[t].rateLimited = task[t].waits - 1 ) =>
            /\ task[t].wait = BaseDelay(t) * Pow2(task[t].rateLimited)
            /\ task[t].wait # BaseDelay(t)

\* One quota error, then a server error: the task waits 4000, not 2000.
C14_Witness ==
    \E t \in Tasks :
        /\ task[t].state = "Retrying"
        /\ task[t].caught = ServerError
        /\ task[t].rateLimited = 1
        /\ task[t].waits = 2
        /\ task[t].wait = 4000

\* C15: a Failed task's outcome is the error its last attempt threw, and its
\* handle is rejected with that very error and is never resolved.
C15_LastErrorSurfaces ==
    \A t \in Tasks :
        /\ task[t].state = "Failed" =>
              /\ outcome[t] = Rejected(task[t].caught)
              /\ handle[t].status # "resolved"
        /\ handle[t].status = "rejected" =>
              /\ task[t].state = "Failed"
              /\ handle[t].err = task[t].caught

\* The first attempt hit a quota error, the retry failed with a fatal error:
\* the handle carries the second one.
C15_Witness ==
    \E t \in Tasks :
        /\ handle[t].status = "rejected"
        /\ handle[t].err = EmptyError
        /\ task[t].rateLimited = 1
        /\ task[t].invocations = 2

\* The tasks whose external call is in flight: operation() was called and has
\* neither returned nor thrown.
InFlight == { t \in Tasks : task[t].state = "Running" }

\* C16: at most concurrency tasks have their external call in flight.
C16_CallsInFlightWithinLimit == Cardinality(InFlight) <= concurrency

\* With one slot: a retried call is in flight while an earlier task has
\* completed and a later one waits in the queue.
C16_Witness ==
    /\ concurrency = 1
    /\ queue # <<>>
    /\ \E t, u \in Tasks :
          /\ InFlight = {t}
          /\ task[t].invocations = 2
          /\ task[u].pc = "released"

\* The call site of a task, told by the arguments only that site passes.
\* extractQuestionsFromImage passes the delay 3000.
isExtraction(t) == Submitted(t) /\ task[t].argDelay = CallerDelay

\* regenerateQuestionData: default budget and delay, priority true.
isRegeneration(t) == Submitted(t) /\ task[t].argDelay = NoArg /\ task[t].priority

\* solveQuestionBatch and solveSpecificQuestion: defaults, priority false.
isSolve(t) == Submitted(t) /\ task[t].argDelay = NoArg /\ ~task[t].priority

\* C17 as stated: a regeneration task added while an extraction task waited
\* in the queue is dispatched before that extraction task.
C17_RegenerationBeforeExtraction ==
    \A r, e \in Tasks :
        ( /\ isRegeneration(r) /\ isExtraction(e)
          /\ e \in queuedAtAdd[r]
          /\ Dispatched(e) )
        => (Dispatched(r) /\ Pos(r) < Pos(e))

\* C17, amended: extraction tasks are priority work like regeneration tasks,
\* and only solve tasks are normal work. A regeneration task added while an
\* extraction task waited in the queue is dispatched after it; one added
\* while a solve task waited is dispatched before it.
C17_PriorityClasses ==
    /\ \A t \in Tasks : isExtraction(t) => task[t].priority
    /\ \A r, e \in Tasks :
          ( /\ isRegeneration(r) /\ isExtraction(e)
            /\ e \in queuedAtAdd[r]
            /\ Dispatched(r) )
          => (Dispatched(e) /\ Pos(e) < Pos(r))
    /\ \A r, n \in Tasks :
          ( /\ isRegeneration(r) /\ isSolve(n)
            /\ n \in queuedAtAdd[r]
            /\ Dispatched(n) )
          => (Dispatched(r) /\ Pos(r) < Pos(n))

\* A regeneration task was added while an extraction task waited, and both
\* have been dispatched.
C17_Witness ==
    \E r, e \in Tasks :
        /\ isRegeneration(r) /\ isExtraction(e)
        /\ e \in queuedAtAdd[r]
        /\ Dispatched(r) /\ Dispatched(e)

\* C18: an add() call can be made in every state, with a free slot or with
\* none, and its step settles nothing: no handle and no outcome changes, the new
\* handle is pending, the new task is either in the queue or started by the
\* one run() of the call, which leaves no free slot beside a waiting task.
C18_AddNeverBlocks ==
    /\ [](ENABLED (\E c \in CallSites : add(c.priority, c.retries, c.delay)))
    /\ [][ nextId' = nextId + 1 =>
              /\ handle' = handle
              /\ outcome' = outcome
              /\ handle'[nextId].status = "pending"
              /\ \/ nextId \in Range(ids(queue')) /\ task'[nextId].state = "Pending"
                 \/ nextId \in Range(dispatched') /\ task'[nextId].state = "Running"
              /\ ~(running' < concurrency /\ queue' # <<>>)
              /\ running = concurrency =>
                    nextId \in Range(ids(queue')) /\ running' = running
         ]_vars

\* One task was started by its own add() call, another was added with the
\* gate full: it waits in the queue and no handle has settled.
C18_Witness ==
    /\ running = concurrency
    /\ \A t \in Tasks : handle[t].status = "pending"
    /\ \E t, u \in Tasks :
          /\ t < u
          /\ task[t].state = "Running" /\ queuedAtAdd[t] = {}
          /\ task[u].state = "Pending" /\ u \in Range(ids(queue))

\* The tasks that hold a slot: started by run() and not yet through the
\* finally() callback.
Holders == { t \in Tasks : task[t].pc \in {"await", "returned"} }

\* C19 as stated: running is decremented before the handle is settled, so a
\* settled handle belongs to a task that has given its slot back.
C19_DecrementBeforeSettle ==
    \A t \in Tasks : Settled(t) => task[t].pc = "released"

\* C19, amended: the handle is settled first, in a step that leaves running
\* and the queue alone; then one step decrements running and runs the
\* dispatch loop, once per task: running counts the tasks not yet through it.
C19_SettleThenRelease ==
    /\ [](running = Cardinality(Holders))
    /\ [][\A t \in Tasks :
            /\ handle'[t] # handle[t] =>
                  /\ outcome[t].settled
                  /\ task[t].pc = "await" /\ task'[t].pc = "returned"
                  /\ running' = running
                  /\ queue' = queue
                  /\ dispatched' = dispatched
            /\ (task[t].pc # "released" /\ task'[t].pc = "released") =>
                  /\ Settled(t) /\ handle'[t] = handle[t]
                  /\ running' = (running - 1) + (Len(dispatched') - Len(dispatched))
                  /\ Len(queue') = Len(queue) - (Len(dispatched') - Len(dispatched))
                  /\ ~(running' < concurrency /\ queue' # <<>>)
            /\ task[t].pc = "released" => task'[t] = task[t]
         ]_vars

\* A task failed, its handle was rejected, it gave its slot back and the
\* next task of the queue was started in that step.
C19_Witness ==
    \E t, u \in Tasks :
        /\ task[t].pc = "released" /\ handle[t].status = "rejected"
        /\ t \in queuedAtAdd[u]
        /\ Dispatched(u) /\ Pos(t) < Pos(u)
        /\ running = concurrency

\* C20: with one slot, a task that is running or waiting between attempts is
\* the last task dispatched and holds the slot, and every task dispatched
\* before it has settled its handle and given the slot back.
C20_SlotKeptWhileRetrying ==
    concurrency = 1 =>
        /\ \A t \in Tasks :
              task[t].state \in {"Running", "Retrying"} =>
                  /\ running = 1
                  /\ t = dispatched[Len(dispatched)]
        /\ \A i \in 1..(Len(dispatched) - 1) :
              /\ Settled(dispatched[i])
              /\ task[dispatched[i]].pc = "released"

\* With one slot, the second task dispatched waits between two attempts while
\* a third task waits in the queue.
C20_Witness ==
    /\ concurrency = 1
    /\ Len(dispatched) = 2
    /\ task[dispatched[2]].state = "Retrying"
    /\ queue # <<>>

\* C21: a task that succeeds after k failures was invoked k + 1 times and
\* waited k times, k being at most its retry budget; its outcome is the
\* result of the last invocation and its handle is resolved with that result.
\* When every failure was rate-limited, the last wait was 5000 to 8000 ms.
C21_SuccessAfterRetries ==
    \A t \in Tasks :
        /\ task[t].state = "Succeeded" =>
              /\ task[t].invocations = task[t].waits + 1
              /\ task[t].waits <= Budget(t)
              /\ outcome[t] = Fulfilled(Result(t, task[t].invocations))
              /\ handle[t].status # "rejected"
              /\ (task[t].waits > 0 /\ task[t].rateLimited = task[t].waits) =>
                    (5000 <= task[t].wait /\ task[t].wait <= 8000)
        /\ handle[t].status = "resolved" =>
              /\ task[t].state = "Succeeded"
              /\ handle[t].value = Result(t, task[t].invocations)

\* Two quota errors, then the third invocation succeeds.
C21_Witness ==
    \E t \in Tasks :
        /\ task[t].state = "Succeeded"
        /\ task[t].rateLimited = 2 /\ task[t].waits = 2
        /\ task[t].invocations = 3
        /\ handle[t].status = "resolved"
        /\ handle[t].value = Result(t, 3)

\* The changes of state a task may make. An add() call that finds a free
\* slot pushes the task and starts it in the same call, so that the task is
\* Pending inside the call only.
Transitions ==
    { <<"Unsubmitted", "Pending">>, <<"Unsubmitted", "Running">>,
      <<"Pending", "Running">>,
      <<"Running", "Succeeded">>, <<"Running", "Retrying">>,
      <<"Retrying", "Running">>,
      <<"Running", "Failed">>, <<"Retrying", "Failed">> }

\* C22: a task changes state along Transitions only; Succeeded and Failed
\* are final; the queue holds the Pending tasks and no others; a task is
\* started once and, once started, is never in the queue again.
C22_StateMachine ==
    /\ [](\A t \in Tasks :
            /\ t \in Range(ids(queue)) <=> task[t].state = "Pending"
            /\ Dispatched(t) <=> task[t].state \notin {"Unsubmitted", "Pending"}
            /\ Cardinality({ i \in 1..Len(dispatched) : dispatched[i] = t }) <= 1)
    /\ [][\A t \in Tasks :
            /\ task'[t].state # task[t].state =>
                  << task[t].state, task'[t].state >> \in Transitions
            /\ task[t].state \in {"Succeeded", "Failed"} =>
                  task'[t].state = task[t].state
            /\ Dispatched(t) =>
                  /\ t \notin Range(ids(queue'))
                  /\ t \in Range(dispatched')
         ]_vars

\* A task waited in the queue, was started, failed once, waited, ran again
\* and succeeded.
C22_Witness ==
    \E t, u \in Tasks :
        /\ t \in queuedAtAdd[u]
        /\ task[t].state = "Succeeded"
        /\ task[t].waits = 1
        /\ task[t].pc = "released"

\* Some word of the message of e is one of words.
Mentions(e, words) == \E i \in 1..Len(e.message) : e.message[i] \in words

\* The rate-limited failures as C23 lists them, the two words in any letter
\* case of the messages to classify.
ListedRateLimited(e) ==
    \/ e.code = 429
    \/ e.status = 429
    \/ e.statusText = "RESOURCE_EXHAUSTED"
    \/ Mentions(e, {"429"})
    \/ Mentions(e, {"quota", "Quota", "QUOTA"})
    \/ Mentions(e, {"exhausted", "Exhausted", "EXHAUSTED"})

\* The catch block of t takes the rate-limit branch in this step.
TakesRateLimitBranch(t) ==
    /\ task'[t].state = "Retrying"
    /\ task'[t].rateLimited = task[t].rateLimited + 1
    /\ task'[t].waits = task[t].waits + 1
    /\ 5000 <= task'[t].wait /\ task'[t].wait <= 8000

\* C23: a failure caught with retries left takes the rate-limit branch (a
\* wait of 5000 to 8000 ms, then a retry) exactly when it is one of the
\* listed rate-limited failures.
C23_RateLimitedClassification ==
    [][\A t \in Tasks :
          (Rejects(t) /\ ~exhausted(t)) =>
              (TakesRateLimitBranch(t) <=> ListedRateLimited(task'[t].caught))
      ]_vars

\* A failure whose message says "Quota exceeded", with a capital, and has no
\* code or status, is waited out as rate-limited.
C23_Witness ==
    \E t \in Tasks :
        /\ task[t].state = "Retrying"
        /\ task[t].caught = Err(0, 0, "", <<"Quota", "exceeded">>)
        /\ task[t].rateLimited = 1
        /\ task[t].wait = 8000

\* The transient failures as C24 lists them, the message in any letter case
\* of the messages to classify.
ListedTransient(e) ==
    \/ e.code \in {500, 503}
    \/ e.status \in {500, 503}
    \/ Mentions(e, {"network", "Network", "NETWORK"})
    \/ Mentions(e, {"fetch", "Fetch", "FETCH"})
    \/ Mentions(e, {"xhr", "XHR"})
    \/ includes(lower(e.message), <<"error", "code:", "6">>)

\* The catch block of t takes the transient branch in this step.
TakesTransientBranch(t) ==
    /\ task'[t].state = "Retrying"
    /\ task'[t].rateLimited = task[t].rateLimited
    /\ task'[t].waits = task[t].waits + 1
    /\ task'[t].wait = task[t].delay

\* C24: a failure caught with retries left that is not rate-limited and is
\* one of the listed transient failures, its message in any letter case, is
\* retried after the current delay.
C24_TransientClassification ==
    [][\A t \in Tasks :
          ( /\ Rejects(t) /\ ~exhausted(t)
            /\ ~ListedRateLimited(task'[t].caught)
            /\ ListedTransient(task'[t].caught) )
          => TakesTransientBranch(t)
      ]_vars

\* C25: a settled handle carries the outcome of the task's retryOperation
\* promise and nothing else: resolved with its value or rejected with its
\* error. Once the handle is settled the finally() callback can run, after a
\* failure as after a success, and its step gives the slot back and starts
\* the head of the queue.
C25_QueueAddsNoFailure ==
    /\ [](\A t \in Tasks :
            /\ Settled(t) =>
                  /\ outcome[t].settled
                  /\ handle[t].status = IF outcome[t].ok THEN "resolved" ELSE "rejected"
                  /\ handle[t].err = outcome[t].err
                  /\ handle[t].value = outcome[t].value
            /\ task[t].pc = "returned" => ENABLED finallyCallback(t))
    /\ [][\A t \in Tasks :
            (task[t].pc = "returned" /\ task'[t].pc = "released") =>
                /\ running' = (running - 1) + (Len(dispatched') - Len(dispatched))
                /\ queue # <<>> =>
                      /\ Head(queue).task \in Range(dispatched')
                      /\ task'[Head(queue).task].state = "Running"
         ]_vars

\* With one slot: a task failed, its handle was rejected with the error of
\* retryOperation, and the task behind it in the queue was started next.
C25_Witness ==
    /\ concurrency = 1
    /\ \E t, u \in Tasks :
          /\ task[t].state = "Failed" /\ task[t].pc = "released"
          /\ handle[t].status = "rejected" /\ handle[t].err = EmptyError
          /\ t \in Range(dispatched) /\ u \in Range(dispatched)
          /\ Pos(u) = Pos(t) + 1
          /\ \E v \in Tasks : u \in queuedAtAdd[v]

\* The step is one add() call, or the finally() callback of one task.
OneCall ==
    \/ /\ nextId' = nextId + 1
       /\ \A t \in Tasks : task'[t].pc = "released" => task[t].pc = "released"
    \/ /\ nextId' = nextId
       /\ Cardinality({ t \in Tasks : task[t].pc = "returned" /\ task'[t].pc = "released" }) = 1

\* The slots free when the loop of run() starts in this step.
FreeSlots == IF nextId' = nextId + 1 THEN concurrency - running
             ELSE concurrency - (running - 1)

\* C26: every submitted task is either in the queue, once, or started, once,
\* never both and never neither; the tasks holding a slot are never more
\* than the slots. A step that touches the queue or the counter is one add()
\* call or one finally() callback, and lets in no more tasks than slots were
\* free.
C26_BookkeepingAtomic ==
    /\ [](/\ \A t \in Tasks :
                Submitted(t) =>
                    Cardinality({ i \in 1..Len(queue) : queue[i].task = t })
                    + Cardinality({ i \in 1..Len(dispatched) : dispatched[i] = t }) = 1
          /\ Range(ids(queue)) \cup Range(dispatched) \subseteq { t \in Tasks : Submitted(t) }
          /\ Cardinality(Holders) <= concurrency)
    /\ [][(queue' # queue \/ running' # running \/ dispatched' # dispatched) =>
              /\ OneCall
              /\ Len(dispatched') - Len(dispatched) <= FreeSlots
              /\ SubSeq(dispatched', 1, Len(dispatched)) = dispatched
         ]_vars

\* With one slot, two tasks waited in the queue together and both have been
\* started since, one at a time.
C26_Witness ==
    /\ concurrency = 1
    /\ running = 1
    /\ Len(dispatched) = 3
    /\ \E u \in Tasks : Cardinality(queuedAtAdd[u]) >= 1

\* C27: a handle settles once its own task has completed, whatever the
\* state of the tasks added before it: the continuation of wrappedTask can
\* run as soon as the retryOperation promise has settled. With one slot the
\* handles settle in the order the tasks were started.
C27_SettlementFollowsCompletion ==
    \A t \in Tasks :
        /\ Settled(t) => outcome[t].settled
        /\ (outcome[t].settled /\ task[t].pc = "await") =>
              ENABLED wrappedTaskContinues(t)
        /\ concurrency = 1 =>
              \A u \in Tasks :
                  (Dispatched(t) /\ Dispatched(u) /\ Pos(t) < Pos(u) /\ Settled(u))
                  => Settled(t)

\* With two slots, the handle of a task is resolved while a task added
\* before it waits between two attempts, its handle pending.
C27_Witness ==
    /\ concurrency >= 2
    /\ \E t, u \in Tasks :
          /\ t < u
          /\ task[t].state = "Retrying" /\ handle[t].status = "pending"
          /\ handle[u].status = "resolved"

\* C28: whatever the failures, a started task has made at most Budget + 1
\* invocations, one per attempt; the retries left are the budget less the
\* retries made and never negative; each new invocation after the first is
\* one retry and takes one from the retries left. Every started task ends
\* Succeeded or Failed when each invocation returns and each timer fires.
C28_BudgetBoundsLoop ==
    /\ [](\A t \in Tasks :
            Dispatched(t) =>
                /\ 1 <= task[t].invocations
                /\ task[t].invocations <= Budget(t) + 1
                /\ task[t].retries = Budget(t) - (task[t].invocations - 1)
                /\ task[t].retries >= 0
                /\ task[t].waits =
                      IF task[t].state = "Retrying" THEN task[t].invocations
                      ELSE task[t].invocations - 1)
    /\ [][\A t \in Tasks :
            task'[t].invocations # task[t].invocations =>
                /\ task'[t].invocations = task[t].invocations + 1
                /\ task[t].invocations >= 1 =>
                      /\ task[t].state = "Retrying"
                      /\ task'[t].retries = task[t].retries - 1
         ]_vars
    /\ \A t \in Tasks :
          Dispatched(t) ~> task[t].state \in {"Succeeded", "Failed"}

\* A task with budget 2 failed with a quota error, a server error and a
\* quota error again: three invocations, no retries left, Failed.
C28_Witness ==
    \E t \in Tasks :
        /\ task[t].state = "Failed"
        /\ Budget(t) = 2
        /\ task[t].invocations = 3
        /\ task[t].retries = 0
        /\ task[t].rateLimited = 1
        /\ task[t].caught = QuotaError

\* C29: in every state, each reached when an add() call or a callback has
\* returned, a task waits in the queue only if no slot is free.
C29_WorkConserving == queue # <<>> => running = concurrency

\* The handle of a task has settled and its finally() callback has not run
\* yet, so that the callbacks of the handle run now; the last task added
\* waits in the queue behind a full gate, and an earlier task has given its
\* slot back to a task that had waited.
C29_Witness ==
    /\ queue # <<>>
    /\ running = concurrency
    /\ queue[Len(queue)].task = nextId - 1
    /\ \E t, u \in Tasks :
          /\ task[t].pc = "returned" /\ Settled(t)
          /\ task[u].pc = "released"

\* The tasks whose finally() callback has run.
Released == { t \in Tasks : task[t].pc = "released" }

\* C30: running is the number of tasks started less the number whose
\* finally() callback has run; each task counted is Running, Retrying, or
\* finished with its slot not yet given back. A step changes running by the
\* tasks it starts less the tasks it releases, a task is released once, and
\* every started task is released in the end.
C30_CounterConsistency ==
    /\ [](/\ running = Len(dispatched) - Cardinality(Released)
          /\ Released \subseteq Range(dispatched)
          /\ running = Cardinality({ t \in Tasks :
                          \/ task[t].state \in {"Running", "Retrying"}
                          \/ /\ task[t].state \in {"Succeeded", "Failed"}
                             /\ task[t].pc # "released" }))
    /\ [][/\ running' - running =
                (Len(dispatched') - Len(dispatched))
                - Cardinality(Released' \ Released)
          /\ Released \subseteq Released'
         ]_vars
    /\ \A t \in Tasks : Dispatched(t) ~> (t \in Released)

\* Two tasks were started, one has given its slot back after a retry, the
\* other still holds its slot: the counter is 1.
C30_Witness ==
    /\ Len(dispatched) = 2
    /\ running = 1
    /\ \E t \in Released : task[t].waits = 1

\* Task n is a normal task waiting in the queue.
PendingNormal(n) == task[n].state = "Pending" /\ ~task[n].priority

\* The priority tasks waiting in the queue.
QueuedHigh == { queue[i].task : i \in { j \in 1..Len(queue) : queue[j].priority } }

\* C31: when the add() calls are finitely many and every started task ends
\* (fair scheduling), a waiting normal task is started in the end. It is
\* started only by a step that leaves no priority task in the queue, and a
\* priority task added while the gate is full leaves it waiting: each
\* priority task added before its turn goes ahead of it.
C31_NormalTaskLiveness ==
    /\ \A n \in Tasks : PendingNormal(n) ~> Dispatched(n)
    /\ [][\A n \in Tasks :
            PendingNormal(n) =>
                /\ task'[n].state # "Pending" => QueuedHigh \cap Range(ids(queue')) = {}
                /\ ( /\ nextId' = nextId + 1 /\ task'[nextId].priority
                     /\ running = concurrency ) =>
                        /\ task'[n].state = "Pending"
                        /\ nextId \in Range(ids(queue'))
                        /\ \A i, j \in 1..Len(queue') :
                              (queue'[i].task = nextId /\ queue'[j].task = n) => i < j
         ]_vars

\* With one slot, a normal task still waits although every task added after
\* it, all priority tasks, has been started.
C31_Witness ==
    /\ concurrency = 1
    /\ \E n \in Tasks :
          /\ PendingNormal(n)
          /\ n + 1 < nextId
          /\ \A h \in (n + 1)..(nextId - 1) : task[h].priority /\ Dispatched(h)
          /\ \E h \in (n + 1)..(nextId - 1) : n \in queuedAtAdd[h]

\* C32: a failure caught with retries left that is both a listed
\* rate-limited failure and a listed transient one takes the rate-limit
\* branch: one wait of 5000 to 8000 ms. The step that ends a wait is one new
\* invocation, with one retry less left and no further wait.
C32_RateLimitFirst ==
    [][\A t \in Tasks :
          /\ ( /\ Rejects(t) /\ ~exhausted(t)
               /\ ListedRateLimited(task'[t].caught)
               /\ ListedTransient(task'[t].caught) )
             => TakesRateLimitBranch(t)
          /\ (task[t].state = "Retrying" /\ task'[t] # task[t]) =>
                /\ task'[t].state = "Running"
                /\ task'[t].invocations = task[t].invocations + 1
                /\ task'[t].retries = task[t].retries - 1
                /\ task'[t].waits = task[t].waits
      ]_vars

\* A failure with status 503 and the message "Quota exceeded" was waited out
\* for 5000 ms, not for the delay of 2000 ms, and the call was made again.
C32_Witness ==
    \E t \in Tasks :
        /\ task[t].caught = Err(0, 503, "", <<"Quota", "exceeded">>)
        /\ task[t].state = "Running"
        /\ task[t].invocations = 2
        /\ task[t].waits = 1 /\ task[t].rateLimited = 1
        /\ task[t].wait = 5000

\* C33: a Failed task has waited once less than it has invoked the call. A
\* failure caught with no retries left is thrown in that step, whatever the
\* error: no wait is started and nothing is counted as rate-limited. With a
\* budget of 0 a Failed task made one invocation and no wait.
C33_NoWaitAfterLastAttempt ==
    /\ [](\A t \in Tasks :
            task[t].state = "Failed" =>
                /\ task[t].waits = task[t].invocations - 1
                /\ Budget(t) = 0 =>
                      /\ task[t].invocations = 1
                      /\ task[t].waits = 0
                      /\ task[t].rateLimited = 0)
    /\ [][\A t \in Tasks :
            (Rejects(t) /\ task[t].retries <= 0) =>
                /\ task'[t].state = "Failed"
                /\ outcome'[t] = Rejected(task'[t].caught)
                /\ task'[t].waits = task[t].waits
                /\ task'[t].wait = task[t].wait
                /\ task'[t].rateLimited = task[t].rateLimited
                /\ task'[t].invocations = task[t].invocations
         ]_vars

\* With a budget of 0 a quota error, retryable otherwise, fails the task
\* after one invocation and no wait.
C33_Witness ==
    \E t \in Tasks :
        /\ task[t].state = "Failed"
        /\ Budget(t) = 0
        /\ task[t].caught = QuotaError
        /\ task[t].invocations = 1
        /\ task[t].waits = 0
        /\ handle[t].status = "rejected"

\* The tasks an add() step starts.
StartedNow == Range(dispatched') \ Range(dispatched)

\* C34: an add() step leaves every task started before it as it is (state,
\* invocations, retries left, delay, outcome and handle); the entries that
\* were in the queue stay in it in the same order unless the step starts
\* them; running grows by the tasks the step starts, which are no more than
\* the slots that were free.
C34_FrameOfAdd ==
    [][nextId' = nextId + 1 =>
          /\ \A u \in Tasks :
                Dispatched(u) =>
                    /\ task'[u] = task[u]
                    /\ outcome'[u] = outcome[u]
                    /\ handle'[u] = handle[u]
          /\ \A i \in 1..Len(queue) :
                queue[i].task \in Range(ids(queue')) \cup StartedNow
          /\ \A i, j \in 1..Len(queue) :
                ( /\ i < j
                  /\ queue[i].task \notin StartedNow
                  /\ queue[j].task \notin StartedNow ) =>
                    \E k, l \in 1..Len(queue') :
                        k < l /\ queue'[k] = queue[i] /\ queue'[l] = queue[j]
          /\ running' - running = Cardinality(StartedNow)
          /\ Cardinality(StartedNow) <= concurrency - running
          /\ SubSeq(dispatched', 1, Len(dispatched)) = dispatched
          /\ concurrency' = concurrency
      ]_vars

\* The last add() call put a priority task before two normal tasks that were
\* waiting, with the gate full and a started task between two attempts.
C34_Witness ==
    /\ running = concurrency
    /\ Len(queue) = 3
    /\ queue[1].task = nextId - 1
    /\ queue[1].priority /\ ~queue[2].priority /\ ~queue[3].priority
    /\ queue[2].task < queue[3].task
    /\ \E u \in Tasks : task[u].state = "Retrying"

\* C35: the retries left and the delay of a started task are functions of
\* its own arguments and its own invocations. A step that changes the
\* retries left or the delay of a started task, a retry of that task,
\* changes no other task and neither the queue nor the counter; the limit of
\* the queue never changes.
C35_RetryIndependence ==
    /\ [](\A t \in Tasks :
            Dispatched(t) =>
                /\ task[t].delay = BaseDelay(t) * Pow2(task[t].invocations - 1)
                /\ task[t].retries = Budget(t) - (task[t].invocations - 1))
    /\ [][/\ \A t \in Tasks :
                ( /\ Dispatched(t)
                  /\ \/ task'[t].retries # task[t].retries
                     \/ task'[t].delay # task[t].delay ) =>
                    /\ \A u \in Tasks \ {t} :
                          /\ task'[u] = task[u]
                          /\ outcome'[u] = outcome[u]
                          /\ handle'[u] = handle[u]
                    /\ queue' = queue
                    /\ running' = running
          /\ concurrency' = concurrency
         ]_vars

\* Two tasks hold the two slots: one has retried and its delay is doubled,
\* the other, started later in the slot a third task gave back, has the
\* delay and the retries of its own call.
C35_Witness ==
    /\ concurrency = 2
    /\ \E t, u \in Tasks :
          /\ t # u
          /\ task[t].state = "Running" /\ task[t].invocations = 2
          /\ task[t].delay = 2 * BaseDelay(t) /\ task[t].retries = Budget(t) - 1
          /\ task[u].state = "Running" /\ task[u].invocations = 1
          /\ task[u].delay = BaseDelay(u) /\ task[u].retries = Budget(u)
          /\ Pos(t) < Pos(u)
          /\ \E v \in Tasks : task[v].pc = "released"

=============================================================================
